---------------------------- MODULE Spec2Model ----------------------------
(***************************************************************************)
(* A model of GnomeUtils: the webhook error reporter (src/src/errors.rs),  *)
(* the webhook logger (src/src/logging.rs), the looper that drives it     *)
(* (src/src/looper.rs) and the bot list updater                            *)
(* (src/src/bot_list_updater.rs).                                          *)
(*                                                                         *)
(* SpecReporter:   concurrent calls of handle_unexpected against the       *)
(*   errors table and the error webhook.                                   *)
(* SpecTraceback:  the same calls with handle_traceback_button.            *)
(* SpecShortError: the block of handle_unexpected that makes short_error.  *)
(* SpecInteraction: interaction_create, which reports the error of the     *)
(*   button and logs the error of that report.                             *)
(* SpecFilter:     Subscriber::enabled deciding which events are recorded. *)
(* SpecBotList:    BotListUpdater::loop_func posting to the bot lists.     *)
(* SpecLogger:     Subscriber::event filling pending_logs and              *)
(*   WebhookLogger::loop_func draining, chunking and delivering it.        *)
(* SpecLooper:     Looper::start on the clock of its interval;             *)
(*   SpecLooperFair adds the fairness of the runtime.                      *)
(***************************************************************************)
EXTENDS Integers, Sequences, FiniteSets, TLC

VARIABLES
    \* ---- errors.rs: the errors table and the error webhook
    errors,         \* table errors: digest -> row, or NoRow
    messages,       \* the error webhook's messages; the index is the message id
    \* ---- errors.rs: one frame of handle_unexpected per call
    pc,             \* where each call stands
    traceback,      \* format!("{:?}", error) of each call
    row,            \* the row RETURNING gave the UPDATE (message_id, occurrences)
    fetched,        \* the embed get_message returned
    posted,         \* message.id of the message execute returned
    returned,       \* message_id RETURNING gave the INSERT
    erred,          \* the step whose `?` returned the call's error
    overlapped,     \* history: a call has started while another was in flight
    \* ---- logging.rs: WebhookLogger and the two webhooks
    pending_logs,   \* Mutex<HashMap<Level, Vec<LogMessage>>>: level -> messages
    locked,         \* the Mutex of pending_logs is held by a MutexGuard
    normal_logs,    \* what the normal webhook has received, in order
    error_logs,     \* what the error webhook has received, in order
    \* ---- logging.rs: the frame of loop_func
    lpc,            \* where loop_func stands
    drained,        \* the local pending_logs: the drained map, less the levels done
    severity,       \* the level of the current iteration
    severity_messages, \* its messages
    chunks,         \* its chunks, as built
    sent,           \* how many of them have been delivered
    webhook,        \* the webhook chosen for it
    webhook_name,   \* the username built for it
    loop_result,    \* what the last loop_func returned
    recorded,       \* the number of events recorded so far
    flushed,        \* history: the number of events the drains have taken
    \* ---- looper.rs: one Looper::start and the clock
    spc,            \* where start stands: in interval.tick() or in loop_func
    deadline_in,    \* the time from now to the deadline of the interval's next tick
    running,        \* the invocations of loop_func in progress
    last,           \* what the last invocation returned
    stderr,         \* the last line start has written with eprintln!
    calls,          \* history: the invocations started: 0, 1 or more
    since_start,    \* history: the time since start was called, up to MILLIS
    since_call,     \* history: the time since the last invocation started, up to MILLIS
    since_end,      \* history: the time since the last invocation returned, up to MILLIS
    on_time,        \* history: the last invocation started at its tick's deadline
    gap,            \* history: since_call, when the last invocation started
    gap_on_time,    \* history: on_time, when the last invocation started
    waited,         \* history: since_end, when the last invocation started
    \* ---- errors.rs: the block that makes short_error
    tpc,            \* where the block stands
    long_err,       \* error.to_string(), as bytes
    new_len,        \* the length the loop is trying
    short_error,    \* the value of the block
    \* ---- errors.rs: handle_traceback_button
    clicked,        \* interaction.message.id of the last interaction handled
    response,       \* the interaction response it was given, or NoResponse
    button_result,  \* what handle_traceback_button returned
    \* ---- logging.rs: the WebhookLogger as the tracing subscriber
    log_prefix,     \* self.log_prefix
    max_verbosity,  \* self.max_verbosity, "none" until new has made the logger
    emitted,        \* the metadata of the last event a tracing macro has made
    \* ---- bot_list_updater.rs: one BotListUpdater and its loop_func
    tokens,         \* self.tokens: of each bot list, its token or None
    bpc,            \* where loop_func stands
    requests,       \* the requests sent in this tick, with what came of each
    bot_errors,     \* the bot lists tracing::error! was called for in this tick
    bot_result      \* what the last loop_func returned

reporterVars == <<errors, messages, pc, traceback, row, fetched, posted, returned, erred,
                  overlapped>>

loggerVars == <<pending_logs, locked, normal_logs, error_logs, lpc, drained, severity,
                severity_messages, chunks, sent, webhook, webhook_name, loop_result,
                recorded, flushed>>

looperVars == <<spc, deadline_in, running, last, stderr, calls, since_start, since_call,
                since_end, on_time, gap, gap_on_time, waited>>

shortVars == <<tpc, long_err, new_len, short_error>>

buttonVars == <<clicked, response, button_result>>

filterVars == <<log_prefix, max_verbosity, emitted>>

botVars == <<tokens, bpc, requests, bot_errors, bot_result>>

vars == <<reporterVars, loggerVars, looperVars, shortVars, buttonVars, filterVars, botVars>>

-----------------------------------------------------------------------------
(* Bounds *)

\* the number of handle_unexpected calls made
MaxCalls == 3

\* the number of handle_unexpected calls made while the traceback button is
\* in use
MaxButtonCalls == 2

\* the number of log events recorded
MaxEvents == 2

\* Looper::MILLIS, the period of the interval, in units of the clock
MILLIS == 2

\* how far past a deadline of the interval the clock is followed
MaxLate == 2

\* the characters an error message ends with, after its run of ASCII
MaxChars == 3

\* the bytes of the long run of text "X" stands for
RunLen == 992

-----------------------------------------------------------------------------
(* errors.rs *)

Procs == 1..MaxCalls

\* the canonical failure texts reported
Tracebacks == {"panic A", "panic B"}

\* variant: a digest on which all tracebacks collide
hashColliding(data) == <<"sha256", "">>

\* SHA-256 of the traceback: a digest that is not the text, taken to be
\* free of collisions
hash(data) == <<"sha256", data>>

Digests == {hash(t) : t \in Tracebacks}

NoRow == [message_id |-> 0, occurrences |-> 0, traceback |-> ""]
NoEmbed == [title |-> "", footer |-> ""]

\* variant: the footer states the count before the increment
UpdateFooterOffByOne(occurrences) ==
    "This error has occurred " \o ToString(occurrences - 1) \o " times!"

\* "This error has occurred {} times!", and the creation footer
UpdateFooter(occurrences) == "This error has occurred " \o ToString(occurrences) \o " times!"
CreateFooter == "This error has occurred 1 time!"

InFlight(p) == pc[p] \notin {"idle", "ok", "err"}

ReporterInit ==
    /\ errors = [d \in Digests |-> NoRow]
    /\ messages = <<>>
    /\ pc = [p \in Procs |-> "idle"]
    /\ traceback = [p \in Procs |-> ""]
    /\ row = [p \in Procs |-> NoRow]
    /\ fetched = [p \in Procs |-> NoEmbed]
    /\ posted = [p \in Procs |-> 0]
    /\ returned = [p \in Procs |-> 0]
    /\ erred = [p \in Procs |-> ""]
    /\ overlapped = FALSE

\* `?` on a failed step: the call returns the error
Fail(p) ==
    /\ pc' = [pc EXCEPT ![p] = "err"]
    /\ erred' = [erred EXCEPT ![p] = pc[p]]

\* handle_unexpected is called: the traceback is rendered and hashed.
\* Calls are interchangeable, so they are numbered in the order they start.
CallFrame(p, t) ==
    /\ pc[p] = "idle"
    /\ \A q \in Procs : q < p => pc[q] # "idle"
    /\ traceback' = [traceback EXCEPT ![p] = t]
    /\ pc' = [pc EXCEPT ![p] = "update"]
    /\ overlapped' = (overlapped \/ \E q \in Procs : InFlight(q))
    /\ UNCHANGED <<errors, messages, row, fetched, posted, returned, erred>>

Call(p, t) ==
    /\ CallFrame(p, t)
    /\ UNCHANGED <<loggerVars, looperVars, shortVars, buttonVars, filterVars, botVars>>

\* variant: the UPDATE leaves occurrences as it is
UpdateSetKeepsCount(r) == r

\* SET occurrences = occurrences + 1
UpdateSet(r) == [r EXCEPT !.occurrences = @ + 1]

\* pool.acquire() and UPDATE errors .. WHERE traceback_hash = $1
\* RETURNING message_id, occurrences: Some(row) leads to the update path,
\* None to the create path
Update(p) ==
    LET d == hash(traceback[p]) IN
    /\ pc[p] = "update"
    /\ \/ /\ errors[d] # NoRow
          /\ errors' = [errors EXCEPT ![d] = UpdateSet(@)]
          /\ row' = [row EXCEPT ![p] = errors'[d]]
          /\ pc' = [pc EXCEPT ![p] = "get_message"]
          /\ UNCHANGED erred
       \/ /\ errors[d] = NoRow
          /\ pc' = [pc EXCEPT ![p] = "execute"]
          /\ UNCHANGED <<errors, row, erred>>
       \/ /\ Fail(p)
          /\ UNCHANGED <<errors, row>>
    /\ UNCHANGED <<overlapped, messages, traceback, fetched, posted, returned>>
    /\ UNCHANGED <<loggerVars, looperVars, shortVars, buttonVars, filterVars, botVars>>

\* error_webhook.get_message(&ctx.http, message_id)
GetMessage(p) ==
    /\ pc[p] = "get_message"
    /\ \/ /\ row[p].message_id \in DOMAIN messages
          /\ messages[row[p].message_id].live
          /\ fetched' = [fetched EXCEPT ![p] = messages[row[p].message_id].embed]
          /\ pc' = [pc EXCEPT ![p] = "edit_message"]
          /\ UNCHANGED erred
       \/ /\ Fail(p)
          /\ UNCHANGED fetched
    /\ UNCHANGED <<overlapped, errors, messages, traceback, row, posted, returned>>
    /\ UNCHANGED <<loggerVars, looperVars, shortVars, buttonVars, filterVars, botVars>>

\* the footer is rewritten in the fetched embed and
\* error_webhook.edit_message(ctx, message_id, ..) sends it
EditMessage(p) ==
    LET id == row[p].message_id
        embed == [fetched[p] EXCEPT !.footer = UpdateFooter(row[p].occurrences)] IN
    /\ pc[p] = "edit_message"
    /\ \/ /\ messages[id].live
          /\ messages' = [messages EXCEPT ![id].embed = embed,
                                          ![id].shown = Append(@, embed.footer)]
          /\ pc' = [pc EXCEPT ![p] = "ok"]
          /\ UNCHANGED erred
       \/ /\ Fail(p)
          /\ UNCHANGED messages
    /\ UNCHANGED <<overlapped, errors, traceback, row, fetched, posted, returned>>
    /\ UNCHANGED <<loggerVars, looperVars, shortVars, buttonVars, filterVars, botVars>>

\* error_webhook.execute(&ctx.http, true, ..): the embed with the footer of
\* the first occurrence is posted as a new message
Execute(p) ==
    LET embed == [title |-> traceback[p], footer |-> CreateFooter] IN
    /\ pc[p] = "execute"
    /\ \/ /\ messages' = Append(messages, [live |-> TRUE, embed |-> embed,
                                           shown |-> <<embed.footer>>])
          /\ posted' = [posted EXCEPT ![p] = Len(messages) + 1]
          /\ pc' = [pc EXCEPT ![p] = "insert"]
          /\ UNCHANGED erred
       \/ /\ Fail(p)
          /\ UNCHANGED <<messages, posted>>
    /\ UNCHANGED <<overlapped, errors, traceback, row, fetched, returned>>
    /\ UNCHANGED <<loggerVars, looperVars, shortVars, buttonVars, filterVars, botVars>>

\* VALUES($1, $2, $3), with occurrences int DEFAULT 1
InsertValues(t, message_id) ==
    [message_id |-> message_id, occurrences |-> 1, traceback |-> t]

\* variant: the conflicting INSERT leaves occurrences as it is
OnConflictDoNothing(r) == r

\* ON CONFLICT (traceback_hash) DO UPDATE SET occurrences = errors.occurrences + 1
OnConflict(r) == [r EXCEPT !.occurrences = @ + 1]

\* variant: the posted message is never taken for the loser's
LostInsertNever(message, message_id) == FALSE

\* variant: the posted message is always taken for the loser's
LostInsertAlways(message, message_id) == TRUE

\* if message.id.0 != (message_id as u64)
LostInsert(message, message_id) == message # message_id

\* INSERT INTO errors(traceback_hash, traceback, message_id) .. ON CONFLICT ..
\* RETURNING errors.message_id, and the comparison that follows it
Insert(p) ==
    LET d == hash(traceback[p])
        new == IF errors[d] = NoRow
               THEN InsertValues(traceback[p], posted[p])
               ELSE OnConflict(errors[d]) IN
    /\ pc[p] = "insert"
    /\ \/ /\ errors' = [errors EXCEPT ![d] = new]
          /\ returned' = [returned EXCEPT ![p] = new.message_id]
          /\ pc' = [pc EXCEPT ![p] = IF LostInsert(posted[p], new.message_id)
                                     THEN "delete_message" ELSE "ok"]
          /\ UNCHANGED erred
       \/ /\ Fail(p)
          /\ UNCHANGED <<errors, returned>>
    /\ UNCHANGED <<overlapped, messages, traceback, row, fetched, posted>>
    /\ UNCHANGED <<loggerVars, looperVars, shortVars, buttonVars, filterVars, botVars>>

\* error_webhook.delete_message(&ctx.http, message.id)
DeleteMessage(p) ==
    /\ pc[p] = "delete_message"
    /\ \/ /\ messages' = [messages EXCEPT ![posted[p]].live = FALSE]
          /\ pc' = [pc EXCEPT ![p] = "ok"]
          /\ UNCHANGED erred
       \/ /\ Fail(p)
          /\ UNCHANGED messages
    /\ UNCHANGED <<overlapped, errors, traceback, row, fetched, posted, returned>>
    /\ UNCHANGED <<loggerVars, looperVars, shortVars, buttonVars, filterVars, botVars>>

handle_unexpected(p) ==
    \/ \E t \in Tracebacks : Call(p, t)
    \/ Update(p)
    \/ GetMessage(p)
    \/ EditMessage(p)
    \/ Execute(p)
    \/ Insert(p)
    \/ DeleteMessage(p)

ReporterNext == \E p \in Procs : handle_unexpected(p)

-----------------------------------------------------------------------------
(* errors.rs: handle_traceback_button *)

\* the message ids an interaction may carry: those the webhook can have
\* given, and 0, which it never gives
MessageIds == 0..MaxCalls

NoResponse == [ephemeral |-> FALSE, files |-> <<>>, content |-> ""]

\* variant: the query has no WHERE
WhereTrue(r, message_id) == TRUE

\* variant: the id is compared with another column
WhereOccurrences(r, message_id) == r.occurrences = message_id

\* WHERE message_id = $1
Where(r, message_id) == r.message_id = message_id

\* SELECT traceback FROM errors WHERE message_id = $1: the rows selected, by
\* their key
Select(message_id) ==
    {d \in Digests : errors[d] # NoRow /\ Where(errors[d], message_id)}

\* the response built from what fetch_optional gave: d.ephemeral(true), and
\* the file traceback.txt or the content
ResponseData(found, d) ==
    IF found
    THEN [ephemeral |-> TRUE,
          files |-> <<[filename |-> "traceback.txt", data |-> errors[d].traceback]>>,
          content |-> ""]
    ELSE [ephemeral |-> TRUE, files |-> <<>>, content |-> "No traceback found."]

ButtonInit ==
    /\ clicked = 0
    /\ response = NoResponse
    /\ button_result = ""

\* handle_traceback_button for an interaction on message message_id:
\* fetch_optional gives one of the rows selected or None, and the response is
\* created; either await may fail, and `?` returns its error
ButtonFrame(message_id) ==
    /\ clicked' = message_id
    /\ \/ /\ \E d \in Select(message_id) : response' = ResponseData(TRUE, d)
          /\ button_result' = "Ok"
       \/ /\ Select(message_id) = {}
          /\ response' = ResponseData(FALSE, "")
          /\ button_result' = "Ok"
       \/ /\ response' = NoResponse
          /\ button_result' = "Err"

handle_traceback_button(message_id) ==
    /\ ButtonFrame(message_id)
    /\ UNCHANGED <<reporterVars, loggerVars, looperVars, shortVars, filterVars, botVars>>

ButtonNext == \E message_id \in MessageIds : handle_traceback_button(message_id)

\* interaction_create for the button, among the calls of handle_unexpected
TracebackNext == (\E p \in 1..MaxButtonCalls : handle_unexpected(p)) \/ ButtonNext

-----------------------------------------------------------------------------
(* logging.rs *)

(* A string is a sequence of atoms: one-byte characters, and "X", a run of    *)
(* RunLen bytes none of which is white space or a line feed, which lets a     *)
(* line reach the 2000 bytes of the limit.                                    *)

\* the limit of `chunk.len() + line.len() > 2000`
ChunkLimit == 2000

\* tracing::Level, ordered by verbosity: ERROR is the least, TRACE the greatest
Levels == {"TRACE", "DEBUG", "INFO", "WARN", "ERROR"}
Verbosity(level) ==
    CASE level = "ERROR" -> 1 [] level = "WARN" -> 2 [] level = "INFO" -> 3
      [] level = "DEBUG" -> 4 [] level = "TRACE" -> 5

\* the events recorded: (metadata.target(), message)
LogMessages == {
    << <<"a">>, <<"h", "e", "l", "l", "o">> >>,
    << <<"b">>, <<"w", "o", "r", "l", "d">> >>,
    << <<"a">>, <<" ", "X", "\n", "X", "\n", "X", "\n", "\n", "X", "X", "X", "\n", "h", "\n">> >> }

\* the grave accent, one byte, which a string of this module cannot hold
Grave == "U+0060"

\* str::len: the length in bytes
RECURSIVE len(_)
len(s) == IF s = <<>> THEN 0
          ELSE (IF Head(s) = "X" THEN RunLen ELSE 1) + len(Tail(s))

\* char::is_whitespace
IsWhitespace(c) == c \in {" ", "\n"}

\* str::trim: without the white space at both ends
RECURSIVE trim_start(_)
trim_start(s) ==
    IF s # <<>> /\ IsWhitespace(Head(s)) THEN trim_start(Tail(s)) ELSE s
RECURSIVE trim_end(_)
trim_end(s) ==
    IF s # <<>> /\ IsWhitespace(s[Len(s)]) THEN trim_end(SubSeq(s, 1, Len(s) - 1)) ELSE s
trim(s) == trim_end(trim_start(s))

\* str::split('\n'): the pieces between the line feeds, at least one
RECURSIVE split(_)
split(s) ==
    IF \E i \in 1..Len(s) : s[i] = "\n"
    THEN LET i == CHOOSE i \in 1..Len(s) : s[i] = "\n" /\ \A j \in 1..(i - 1) : s[j] # "\n"
         IN  <<SubSeq(s, 1, i - 1)>> \o split(SubSeq(s, i + 1, Len(s)))
    ELSE <<s>>

\* str::split_inclusive('\n'): the pieces, each with the line feed that ends
\* it; no empty piece at the end
RECURSIVE split_inclusive(_)
split_inclusive(s) ==
    IF s = <<>> THEN <<>>
    ELSE IF \E i \in 1..Len(s) : s[i] = "\n"
    THEN LET i == CHOOSE i \in 1..Len(s) : s[i] = "\n" /\ \A j \in 1..(i - 1) : s[j] # "\n"
         IN  <<SubSeq(s, 1, i)>> \o split_inclusive(SubSeq(s, i + 1, Len(s)))
    ELSE <<s>>

\* collect::<String>(): the strings one after the other
RECURSIVE concat(_)
concat(ss) == IF ss = <<>> THEN <<>> ELSE Head(ss) \o concat(Tail(ss))

\* variant: the line without the grave accents
FormatPlain(target, line) == <<"[">> \o target \o <<"]", ":", " ">> \o line \o <<"\n">>

\* format!("`[{}]`: {}\n", target, line)
Format(target, line) ==
    <<Grave, "[">> \o target \o <<"]", Grave, ":", " ">> \o line \o <<"\n">>

\* one message: log_message.trim().split('\n').map(format!).collect::<String>()
FormatMessage(target, log_message) ==
    LET lines == split(trim(log_message)) IN
    concat([i \in 1..Len(lines) |-> Format(target, lines[i])])

\* pre_chunked: the formatted messages, collected into one String
PreChunked(msgs) ==
    concat([i \in 1..Len(msgs) |-> FormatMessage(msgs[i][1], msgs[i][2])])

\* variant: the line that does not fit is not pushed
PushLineDropping(cs, line) ==
    IF cs # <<>>
    THEN IF len(cs[Len(cs)]) + len(line) > ChunkLimit
         THEN cs
         ELSE [cs EXCEPT ![Len(cs)] = @ \o line]
    ELSE Append(cs, line)

\* variant: the line is appended to the last chunk whatever its length
PushLineAlwaysAppend(cs, line) ==
    IF cs # <<>> THEN [cs EXCEPT ![Len(cs)] = @ \o line] ELSE Append(cs, line)

\* variant: a new chunk already when the line brings the last one to the limit
PushLineAtLimit(cs, line) ==
    IF cs # <<>>
    THEN IF len(cs[Len(cs)]) + len(line) >= ChunkLimit
         THEN Append(cs, line)
         ELSE [cs EXCEPT ![Len(cs)] = @ \o line]
    ELSE Append(cs, line)

\* the body of `for line in pre_chunked.split_inclusive('\n')`
PushLine(cs, line) ==
    IF cs # <<>>
    THEN IF len(cs[Len(cs)]) + len(line) > ChunkLimit
         THEN Append(cs, line)
         ELSE [cs EXCEPT ![Len(cs)] = @ \o line]
    ELSE Append(cs, line)

\* the loop over the lines, from the chunks cs on
RECURSIVE PushLines(_, _)
PushLines(cs, lines) ==
    IF lines = <<>> THEN cs ELSE PushLines(PushLine(cs, Head(lines)), Tail(lines))

\* chunks, once the loop has run
Chunks(msgs) == PushLines(<<>>, split_inclusive(PreChunked(msgs)))

\* variant: the comparison the other way round, severity >= Level::ERROR
WebhookAtLeastError(level) ==
    IF Verbosity(level) >= Verbosity("ERROR") THEN "error_logs" ELSE "normal_logs"

\* if tracing::Level::ERROR >= severity {&self.error_logs} else {&self.normal_logs}
Webhook(level) ==
    IF Verbosity("ERROR") >= Verbosity(level) THEN "error_logs" ELSE "normal_logs"

\* webhook_name: self.webhook_name, " [", severity_str, "]"
WebhookName(level) == <<"Logs", " [", level, "]">>

\* level_lookup, and the avatar of a level it does not hold
LevelLookup(level) ==
    CASE level \in {"TRACE", "DEBUG"} -> 1 [] level = "INFO" -> 0
      [] level = "WARN" -> 3 [] level = "ERROR" -> 4 [] OTHER -> 5

NoLogs == [level \in Levels |-> <<>>]

\* the number of messages a map holds, over its levels
Buffered(logs) ==
    Len(logs["TRACE"]) + Len(logs["DEBUG"]) + Len(logs["INFO"]) + Len(logs["WARN"])
    + Len(logs["ERROR"])

LoggerInit ==
    /\ pending_logs = NoLogs
    /\ locked = FALSE
    /\ normal_logs = <<>>
    /\ error_logs = <<>>
    /\ lpc = "idle"
    /\ drained = NoLogs
    /\ severity = ""
    /\ severity_messages = <<>>
    /\ chunks = <<>>
    /\ sent = 0
    /\ webhook = ""
    /\ webhook_name = <<>>
    /\ loop_result = ""
    /\ recorded = 0
    /\ flushed = 0

\* variant: the message is put before those of its level
push_front(v, message) == <<message>> \o v

\* .entry(level).or_insert_with(Vec::new).push(..)
push(v, message) == Append(v, message)

\* Subscriber::event: lock() waits for the Mutex; the message is pushed on the
\* Vec of its level, and the guard, a temporary, is dropped with the statement
EventFrame(level, message) ==
    /\ recorded < MaxEvents
    /\ ~locked
    /\ recorded' = recorded + 1
    /\ pending_logs' = [pending_logs EXCEPT ![level] = push(@, message)]
    /\ locked' = FALSE
    /\ UNCHANGED <<normal_logs, error_logs, lpc, drained, severity, severity_messages,
                   chunks, sent, webhook, webhook_name, loop_result, flushed>>

Event(level, message) ==
    /\ EventFrame(level, message)
    /\ UNCHANGED <<reporterVars, looperVars, shortVars, buttonVars, filterVars, botVars>>

\* variant: the guard is bound to a local of loop_func
GuardBound == TRUE

\* line 54: the MutexGuard lock() returns is a temporary of the `let`
\* statement, dropped when the statement ends
GuardOutlivesDrain == FALSE

\* variant: the map is copied under the lock, and left as it is
DrainCopies ==
    /\ lpc = "idle"
    /\ ~locked
    /\ locked' = GuardOutlivesDrain
    /\ drained' = pending_logs
    /\ flushed' = flushed + Buffered(pending_logs)
    /\ lpc' = "for"
    /\ UNCHANGED <<pending_logs, normal_logs, error_logs, severity, severity_messages,
                   chunks, sent, webhook, webhook_name, loop_result, recorded>>
    /\ UNCHANGED <<reporterVars, looperVars, shortVars, buttonVars, filterVars, botVars>>

\* Looper::start calls loop_func, whose first statement is
\* self.pending_logs.lock().drain().collect()
Drain ==
    /\ lpc = "idle"
    /\ ~locked
    /\ locked' = GuardOutlivesDrain
    /\ drained' = pending_logs
    /\ pending_logs' = NoLogs
    /\ flushed' = flushed + Buffered(pending_logs)
    /\ lpc' = "for"
    /\ UNCHANGED <<normal_logs, error_logs, severity, severity_messages, chunks, sent,
                   webhook, webhook_name, loop_result, recorded>>
    /\ UNCHANGED <<reporterVars, looperVars, shortVars, buttonVars, filterVars, botVars>>

\* `for (severity, messages) in pending_logs`: the next entry of the map, in
\* the order the HashMap gives, with its chunks, webhook and username; Ok(())
\* after the last
ForSeverity ==
    /\ lpc = "for"
    /\ \/ \E level \in Levels :
             /\ drained[level] # <<>>
             /\ severity' = level
             /\ severity_messages' = drained[level]
             /\ drained' = [drained EXCEPT ![level] = <<>>]
             /\ chunks' = Chunks(drained[level])
             /\ sent' = 0
             /\ webhook' = Webhook(level)
             /\ webhook_name' = WebhookName(level)
             /\ lpc' = "execute"
             /\ UNCHANGED <<loop_result, locked>>
       \/ /\ \A level \in Levels : drained[level] = <<>>
          /\ lpc' = "idle"
          /\ loop_result' = "Ok"
          /\ locked' = FALSE
          /\ UNCHANGED <<drained, severity, severity_messages, chunks, sent, webhook,
                         webhook_name>>
    /\ UNCHANGED <<pending_logs, normal_logs, error_logs, recorded, flushed>>
    /\ UNCHANGED <<reporterVars, looperVars, shortVars, buttonVars, filterVars, botVars>>

\* variant: a chunk whose delivery fails is skipped, and the loop goes on
ExecuteChunkSkips ==
    LET request == [content |-> chunks[sent + 1], username |-> webhook_name,
                    avatar_url |-> LevelLookup(severity)] IN
    /\ lpc = "execute"
    /\ \/ /\ sent < Len(chunks)
          /\ webhook = "normal_logs"
          /\ normal_logs' = Append(normal_logs, request)
          /\ sent' = sent + 1
          /\ UNCHANGED <<error_logs, lpc, drained, loop_result, locked>>
       \/ /\ sent < Len(chunks)
          /\ webhook = "error_logs"
          /\ error_logs' = Append(error_logs, request)
          /\ sent' = sent + 1
          /\ UNCHANGED <<normal_logs, lpc, drained, loop_result, locked>>
       \/ /\ sent < Len(chunks)
          /\ sent' = sent + 1
          /\ UNCHANGED <<normal_logs, error_logs, lpc, drained, loop_result, locked>>
       \/ /\ sent = Len(chunks)
          /\ lpc' = "for"
          /\ UNCHANGED <<normal_logs, error_logs, drained, sent, loop_result, locked>>
    /\ UNCHANGED <<pending_logs, severity, severity_messages, chunks, webhook,
                   webhook_name, recorded, flushed>>
    /\ UNCHANGED <<reporterVars, looperVars, shortVars, buttonVars, filterVars, botVars>>

\* `for chunk in chunks { webhook.execute(..).await?; }`: the next chunk is
\* delivered, or the delivery fails and loop_func returns its error, dropping
\* what it had drained
ExecuteChunk ==
    LET request == [content |-> chunks[sent + 1], username |-> webhook_name,
                    avatar_url |-> LevelLookup(severity)] IN
    /\ lpc = "execute"
    /\ \/ /\ sent < Len(chunks)
          /\ webhook = "normal_logs"
          /\ normal_logs' = Append(normal_logs, request)
          /\ sent' = sent + 1
          /\ UNCHANGED <<error_logs, lpc, drained, loop_result, locked>>
       \/ /\ sent < Len(chunks)
          /\ webhook = "error_logs"
          /\ error_logs' = Append(error_logs, request)
          /\ sent' = sent + 1
          /\ UNCHANGED <<normal_logs, lpc, drained, loop_result, locked>>
       \/ /\ sent < Len(chunks)
          /\ lpc' = "idle"
          /\ loop_result' = "Err"
          /\ drained' = NoLogs
          /\ locked' = FALSE
          /\ UNCHANGED <<normal_logs, error_logs, sent>>
       \/ /\ sent = Len(chunks)
          /\ lpc' = "for"
          /\ UNCHANGED <<normal_logs, error_logs, drained, sent, loop_result, locked>>
    /\ UNCHANGED <<pending_logs, severity, severity_messages, chunks, webhook,
                   webhook_name, recorded, flushed>>
    /\ UNCHANGED <<reporterVars, looperVars, shortVars, buttonVars, filterVars, botVars>>

loop_func == Drain \/ ForSeverity \/ ExecuteChunk

LoggerNext ==
    \/ \E level \in Levels, message \in LogMessages : Event(level, message)
    \/ loop_func

-----------------------------------------------------------------------------
(* logging.rs: Subscriber::enabled, and the events of tracing macros *)

Gnomeutils == <<"g", "n", "o", "m", "e", "u", "t", "i", "l", "s">>

\* str::starts_with
starts_with(s, t) == Len(t) <= Len(s) /\ SubSeq(s, 1, Len(t)) = t

\* variant: every target is treated as a foreign one
enabledForeign(target, level) == Verbosity("WARN") >= Verbosity(level)

\* Subscriber::enabled: Level is ordered by verbosity
enabled(target, level) ==
    IF \E t \in {Gnomeutils, log_prefix} : starts_with(target, t)
    THEN Verbosity(max_verbosity) >= Verbosity(level)
    ELSE Verbosity("WARN") >= Verbosity(level)

NoMetadata == [target |-> <<>>, level |-> ""]

FilterInit ==
    /\ log_prefix = <<>>
    /\ max_verbosity = "none"
    /\ emitted = NoMetadata

\* the values WebhookLogger::new is given for log_prefix
LogPrefixes == {<<"b", "o", "t">>}

\* WebhookLogger::new, and the logger set as the subscriber
new(prefix, verbosity) ==
    /\ max_verbosity = "none"
    /\ log_prefix' = prefix
    /\ max_verbosity' = verbosity
    /\ UNCHANGED emitted
    /\ UNCHANGED <<reporterVars, loggerVars, looperVars, shortVars, buttonVars, botVars>>

\* what a tracing macro does with its event: the subscriber, if there is one,
\* is asked enabled, and given the event if it says so
Dispatch(target, level, message) ==
    /\ emitted' = [target |-> target, level |-> level]
    /\ UNCHANGED <<log_prefix, max_verbosity>>
    /\ IF max_verbosity # "none" /\ enabled(target, level)
       THEN EventFrame(level, <<target, message>>)
       ELSE UNCHANGED loggerVars

\* the targets of the events made: of this library, of the crate of the
\* prefix, the library's name and the prefix cut short, and a foreign crate
Targets == {
    Gnomeutils \o <<":", ":", "e">>,
    <<"b", "o", "t", ":", ":", "m">>,
    <<"g", "n", "o", "m", "e">>,
    <<"b", "o">>,
    <<"s", "e", "r">> }

\* a tracing macro is called somewhere in the process
emit(target, level) ==
    /\ max_verbosity # "none"
    /\ Dispatch(target, level, <<"h">>)
    /\ UNCHANGED <<reporterVars, looperVars, shortVars, buttonVars, botVars>>

FilterNext ==
    \/ \E prefix \in LogPrefixes, verbosity \in Levels : new(prefix, verbosity)
    \/ \E target \in Targets, level \in Levels : emit(target, level)

-----------------------------------------------------------------------------
(* errors.rs: interaction_create *)

\* variant: the failure is logged with warn!
OnErrorWarn == "WARN"

\* error!(..): Level::ERROR
OnErrorLevel == "ERROR"

\* module_path!() of errors.rs, the target of its events
OnErrorTarget == Gnomeutils \o <<":", ":", "e", "r", "r", "o", "r", "s">>

\* "on_error: {:?}" of the error
OnErrorMessage == <<"o", "n", "_", "e", "r", "r", "o", "r", ":", " ", "e", "r", "r">>

\* interaction_create for the traceback button, to the first await of
\* handle_unexpected_default: handle_traceback_button, and if it returned an
\* error, handle_unexpected called with it
interaction_create(p, message_id) ==
    /\ pc[p] = "idle"
    /\ ButtonFrame(message_id)
    /\ IF button_result' = "Err"
       THEN \E t \in Tracebacks : CallFrame(p, t)
       ELSE UNCHANGED reporterVars
    /\ UNCHANGED <<loggerVars, looperVars, shortVars, filterVars, botVars>>

\* .unwrap_or_else(|err| error!("on_error: {:?}", err)), when handle_unexpected
\* has returned an error
on_error(p) ==
    /\ pc[p] = "err"
    /\ pc' = [pc EXCEPT ![p] = "on_error"]
    /\ UNCHANGED <<errors, messages, traceback, row, fetched, posted, returned, erred,
                   overlapped>>
    /\ Dispatch(OnErrorTarget, OnErrorLevel, OnErrorMessage)
    /\ UNCHANGED <<looperVars, shortVars, buttonVars, botVars>>

\* handle_unexpected past its call
Report(p) ==
    Update(p) \/ GetMessage(p) \/ EditMessage(p) \/ Execute(p) \/ Insert(p)
    \/ DeleteMessage(p)

InteractionNext ==
    \/ \E verbosity \in {"ERROR", "TRACE"}, prefix \in LogPrefixes : new(prefix, verbosity)
    \/ \E p \in 1..MaxButtonCalls :
          \/ \E message_id \in MessageIds : interaction_create(p, message_id)
          \/ Report(p)
          \/ on_error(p)

-----------------------------------------------------------------------------
(* bot_list_updater.rs *)

BotLists == {"bots_on_discord", "top_gg", "discord_bots_gg"}

\* Option<String>: no token, a token that is a valid header value, and one
\* that is not (a control character in it, such as a line feed)
Tokens == {"None", "token", "to\nken"}

\* HeaderValue::from_str(token): Err for a byte that a header value cannot hold
from_str(token) == IF token = "to\nken" THEN "Err" ELSE "Ok"

\* top_gg_data, discord_bots_gg_data, bots_on_discord_data:
\* self.tokens.<list>.as_deref().map(|token| BotListReq {.. token:
\* HeaderValue::from_str(token).unwrap() ..}); unwrap panics on Err
data(list) ==
    IF tokens[list] = "None" THEN "None"
    ELSE IF from_str(tokens[list]) = "Err" THEN "panic"
    ELSE "Some"

\* what send().await and error_for_status() can give
Outcomes == {"success", "status", "Err"}

BotInit ==
    /\ tokens = [list \in BotLists |-> "None"]
    /\ bpc = "new"
    /\ requests = <<>>
    /\ bot_errors = <<>>
    /\ bot_result = ""

\* BotListUpdater::new
BotListUpdater_new(t) ==
    /\ bpc = "new"
    /\ tokens' = t
    /\ bpc' = "idle"
    /\ UNCHANGED <<requests, bot_errors, bot_result>>
    /\ UNCHANGED <<reporterVars, loggerVars, looperVars, shortVars, buttonVars, filterVars>>

\* Looper::start calls loop_func
bot_loop_func ==
    /\ bpc = "idle"
    /\ bpc' = "bots_on_discord"
    /\ requests' = <<>>
    /\ bot_errors' = <<>>
    /\ UNCHANGED <<tokens, bot_result>>
    /\ UNCHANGED <<reporterVars, loggerVars, looperVars, shortVars, buttonVars, filterVars>>

\* perform(self.<list>_data(..)).await: the request is built, which may
\* panic; None is passed over; Some is sent, and an error of sending or an
\* error status is logged with tracing::error!; then the statement after is
\* next, which for the last is Ok(())
perform(list, next) ==
    /\ bpc = list
    /\ \/ /\ data(list) = "panic"
          /\ bpc' = "panic"
          /\ UNCHANGED <<requests, bot_errors, bot_result>>
       \/ /\ data(list) = "None"
          /\ bpc' = next
          /\ bot_result' = IF next = "idle" THEN "Ok" ELSE bot_result
          /\ UNCHANGED <<requests, bot_errors>>
       \/ /\ data(list) = "Some"
          /\ \E outcome \in Outcomes :
                /\ requests' = Append(requests, [list |-> list, outcome |-> outcome])
                /\ bot_errors' = IF outcome = "success" THEN bot_errors
                                 ELSE Append(bot_errors, list)
          /\ bpc' = next
          /\ bot_result' = IF next = "idle" THEN "Ok" ELSE bot_result
    /\ UNCHANGED tokens
    /\ UNCHANGED <<reporterVars, loggerVars, looperVars, shortVars, buttonVars, filterVars>>

bots_on_discord == perform("bots_on_discord", "top_gg")

top_gg == perform("top_gg", "discord_bots_gg")

discord_bots_gg == perform("discord_bots_gg", "idle")

BotNext ==
    \/ \E t \in [BotLists -> Tokens] : BotListUpdater_new(t)
    \/ bot_loop_func
    \/ bots_on_discord
    \/ top_gg
    \/ discord_bots_gg

-----------------------------------------------------------------------------
(* errors.rs: short_error *)

(* A String is the sequence of its bytes, of which the model keeps the kind:  *)
(* "a" an ASCII byte, "L" the first byte of a longer character, "c" one of    *)
(* the bytes that continue it.                                                *)

\* let mut new_len = 256
ShortLimit == 256

\* the bytes of a character of w bytes
Char(w) == IF w = 1 THEN <<"a">> ELSE <<"L">> \o [i \in 1..(w - 1) |-> "c"]

\* the bytes of the characters whose widths are ws
RECURSIVE Chars(_)
Chars(ws) == IF ws = <<>> THEN <<>> ELSE Char(Head(ws)) \o Chars(Tail(ws))

\* the error messages tried: n ASCII bytes, n nothing or about ShortLimit,
\* then up to MaxChars characters of 1 to 4 bytes
Strings ==
    {[i \in 1..n |-> "a"] \o Chars(ws) :
        n \in {0} \cup ((ShortLimit - 6)..(ShortLimit + 1)),
        ws \in UNION {[1..k -> 1..4] : k \in 0..MaxChars}}

\* variant: every index is taken for a boundary
is_char_boundaryAlways(s, index) == TRUE

\* str::is_char_boundary: 0 and len are boundaries, an index past len is not,
\* an index inside is one unless its byte continues a character
is_char_boundary(s, index) ==
    IF index = 0 THEN TRUE
    ELSE IF index >= Len(s) THEN index = Len(s)
    ELSE s[index + 1] # "c"

ShortInit ==
    /\ tpc = "idle"
    /\ long_err = <<>>
    /\ new_len = 0
    /\ short_error = <<>>

\* let mut long_err = error.to_string(); let mut new_len = 256;
to_string(error) ==
    /\ tpc = "idle"
    /\ long_err' = error
    /\ new_len' = ShortLimit
    /\ tpc' = "while"
    /\ UNCHANGED short_error
    /\ UNCHANGED <<reporterVars, loggerVars, looperVars, buttonVars, filterVars, botVars>>

\* while !long_err.is_char_boundary(new_len) { new_len -= 1; }, one turn of
\* it; new_len is a usize, and taking 1 from 0 panics
While ==
    /\ tpc = "while"
    /\ IF is_char_boundary(long_err, new_len)
       THEN tpc' = "truncate" /\ UNCHANGED new_len
       ELSE IF new_len = 0
            THEN tpc' = "panic" /\ UNCHANGED new_len
            ELSE new_len' = new_len - 1 /\ UNCHANGED tpc
    /\ UNCHANGED <<long_err, short_error>>
    /\ UNCHANGED <<reporterVars, loggerVars, looperVars, buttonVars, filterVars, botVars>>

\* long_err.truncate(new_len); long_err: String::truncate does nothing when
\* new_len is not less than the length, and panics when new_len is not on a
\* boundary
Truncate ==
    /\ tpc = "truncate"
    /\ IF new_len >= Len(long_err)
       THEN short_error' = long_err /\ tpc' = "done"
       ELSE IF long_err[new_len + 1] = "c"
            THEN tpc' = "panic" /\ UNCHANGED short_error
            ELSE short_error' = SubSeq(long_err, 1, new_len) /\ tpc' = "done"
    /\ UNCHANGED <<long_err, new_len>>
    /\ UNCHANGED <<reporterVars, loggerVars, looperVars, buttonVars, filterVars, botVars>>

ShortNext == (\E error \in Strings : to_string(error)) \/ While \/ Truncate

-----------------------------------------------------------------------------
(* looper.rs *)

(* Looper::start with the clock of tokio::time. Time is kept relative to now: *)
(* deadline_in is the deadline of the interval's next tick less now, and the  *)
(* history variables since_* stop counting at MILLIS, which is as far as the  *)
(* properties look.                                                           *)

\* const NAME
NAME == "Looper"

\* variant: the first tick is due one period after the interval is made
FirstDeadlineAfterPeriod == MILLIS

\* tokio::time::interval(period): the first tick completes immediately
FirstDeadline == 0

\* variant: tick() never waits
TickReadyAlways(d) == TRUE

\* interval.tick().await completes once the deadline of the tick is reached
TickReady(d) == d <= 0

\* MissedTickBehavior::Burst, the default of an Interval: the next deadline is
\* one period after the deadline of this tick, whenever this tick completed
NextDeadline(d) == d + MILLIS

\* variant: loop_func is spawned and start goes back to the interval
Spawned == "tick"

\* self.loop_func().await: start is suspended until loop_func returns
Awaited == "loop_func"

\* variant: start returns the error of loop_func
ErrReturned == "returned"

\* `if let Err(err) = ..` prints the error and falls to the end of the loop
ErrHandled == "tick"

\* eprintln!("{} Error: {:?}", Self::NAME, err)
Eprintln(err) == <<NAME, " Error: ", err>>

Min(a, b) == IF a < b THEN a ELSE b

LooperInit ==
    /\ spc = "tick"
    /\ deadline_in = FirstDeadline
    /\ running = 0
    /\ last = ""
    /\ stderr = <<>>
    /\ calls = 0
    /\ since_start = 0
    /\ since_call = MILLIS
    /\ since_end = MILLIS
    /\ on_time = FALSE
    /\ gap = MILLIS
    /\ gap_on_time = FALSE
    /\ waited = MILLIS

\* interval.tick().await completes and loop_func is called
Tick ==
    /\ spc = "tick"
    /\ TickReady(deadline_in)
    /\ deadline_in' = NextDeadline(deadline_in)
    /\ spc' = Awaited
    /\ running' = running + 1
    /\ calls' = Min(calls + 1, 2)
    /\ since_call' = 0
    /\ on_time' = (deadline_in = 0)
    /\ gap' = since_call
    /\ gap_on_time' = on_time
    /\ waited' = since_end
    /\ UNCHANGED <<last, stderr, since_start, since_end>>
    /\ UNCHANGED <<reporterVars, loggerVars, shortVars, buttonVars, filterVars, botVars>>

\* loop_func returns Ok(()) or an error, which start prints
Return(result) ==
    /\ running > 0
    /\ running' = running - 1
    /\ last' = result
    /\ since_end' = 0
    /\ \/ /\ result = "Ok"
          /\ spc' = "tick"
          /\ UNCHANGED stderr
       \/ /\ result = "Err"
          /\ spc' = ErrHandled
          /\ stderr' = Eprintln("err")
    /\ UNCHANGED <<deadline_in, calls, since_start, since_call, on_time, gap,
                   gap_on_time, waited>>
    /\ UNCHANGED <<reporterVars, loggerVars, shortVars, buttonVars, filterVars, botVars>>

\* one unit of time passes, in interval.tick() or in loop_func
Elapse ==
    /\ deadline_in > -MaxLate
    /\ deadline_in' = deadline_in - 1
    /\ since_start' = Min(since_start + 1, MILLIS)
    /\ since_call' = Min(since_call + 1, MILLIS)
    /\ since_end' = Min(since_end + 1, MILLIS)
    /\ UNCHANGED <<spc, running, last, stderr, calls, on_time, gap, gap_on_time, waited>>
    /\ UNCHANGED <<reporterVars, loggerVars, shortVars, buttonVars, filterVars, botVars>>

start == Tick \/ (\E result \in {"Ok", "Err"} : Return(result))

LooperNext == start \/ Elapse

-----------------------------------------------------------------------------
(* The specifications *)

Init == ReporterInit /\ LoggerInit /\ LooperInit /\ ShortInit /\ ButtonInit
        /\ FilterInit /\ BotInit

\* calls of handle_unexpected, in any interleaving
SpecReporter == Init /\ [][ReporterNext]_vars

\* the same calls, and interactions with the traceback button of any message
SpecTraceback == Init /\ [][TracebackNext]_vars

\* interactions with the traceback button, the reports of their failures, and
\* the logger as the subscriber
SpecInteraction == Init /\ [][InteractionNext]_vars

\* a logger of any verbosity as the subscriber, and events of any target and level
SpecFilter == Init /\ [][FilterNext]_vars

\* a BotListUpdater with any tokens, and its ticks
SpecBotList == Init /\ [][BotNext]_vars

\* events recorded by any number of producers, and the loop of the logger
SpecLogger == Init /\ [][LoggerNext]_vars

\* one Looper::start, its loop_func taking any time and returning either way
SpecLooper == Init /\ [][LooperNext]_vars

\* the block that makes short_error, on each of the error messages
SpecShortError == Init /\ [][ShortNext]_vars

\* the same where the runtime runs start when it can, time passes and every
\* invocation of loop_func returns
SpecLooperFair ==
    /\ Init /\ [][LooperNext]_vars
    /\ WF_vars(Tick)
    /\ WF_vars(\E result \in {"Ok", "Err"} : Return(result))
    /\ WF_vars(Elapse)

-----------------------------------------------------------------------------
(* Properties of the error reporter *)

\* the calls made with the traceback whose digest is d
CallsOf(d) == {p \in Procs : pc[p] # "idle" /\ hash(traceback[p]) = d}

\* the messages the calls of d have posted, and those of them still posted
PostedOf(d) == {posted[p] : p \in {q \in CallsOf(d) : posted[q] # 0}}
LiveOf(d) == {m \in PostedOf(d) : messages[m].live}

\* every call of d has returned Ok(())
AllOk(d) == \A p \in CallsOf(d) : pc[p] = "ok"

\* a create path that has posted its message and has not finished the INSERT
\* and the deletion after a lost INSERT: still there, or returned an error there
Unsettled(p) ==
    \/ pc[p] \in {"insert", "delete_message"}
    \/ pc[p] = "err" /\ erred[p] \in {"insert", "delete_message"}

\* the footers that state the counts from, .., to
RECURSIVE Footers(_, _)
Footers(from, to) ==
    IF from > to THEN <<>>
    ELSE <<"This error has occurred " \o ToString(from) \o " times!">>
         \o Footers(from + 1, to)

\* C1: once M >= 1 calls with the same traceback, in any interleaving, have all
\* returned without a store or delivery failure, the table holds the row of
\* that digest with occurrences = M and exactly one message of that digest is
\* live: the one the row names.
C1_ConcurrentConverge ==
    \A d \in Digests :
        (CallsOf(d) # {} /\ AllOk(d)) =>
            /\ errors[d] # NoRow
            /\ errors[d].occurrences = Cardinality(CallsOf(d))
            /\ LiveOf(d) = {errors[d].message_id}

\* all calls were made with one traceback, at least two of them posted a
\* message, and all have returned Ok
C1_Witness ==
    \E d \in Digests :
        /\ Cardinality(CallsOf(d)) = MaxCalls
        /\ AllOk(d)
        /\ Cardinality(PostedOf(d)) >= 2

\* C2 as stated: in every reachable state at most one message per digest is
\* live.
C2_AtMostOneLive ==
    \A d \in Digests : Cardinality(LiveOf(d)) <= 1

\* C2 amended: in every reachable state, besides the messages of create paths
\* that have posted and not finished their INSERT and deletion (in flight
\* there, or returned an error there), at most one message per digest is live.
C2_AtMostOneSettledLive ==
    \A d \in Digests :
        Cardinality({m \in LiveOf(d) :
                        \A p \in CallsOf(d) : posted[p] = m => ~Unsettled(p)}) <= 1

\* two messages of one digest are live while the call that lost the INSERT is
\* about to delete its own
C2_Witness ==
    \E d \in Digests :
        /\ Cardinality(LiveOf(d)) = 2
        /\ \E p \in CallsOf(d) : pc[p] = "delete_message"

\* C3: once every call has returned, with Ok or with an error, every live
\* message is the message_id of exactly one row.
C3_NoOrphan ==
    (\A p \in Procs : ~InFlight(p)) =>
        \A m \in DOMAIN messages :
            messages[m].live =>
                Cardinality({d \in Digests : errors[d].message_id = m}) = 1

\* C4: for calls made one after the other with one traceback, none failing
\* at a store step, at the post or at the deletion, the first posts one message
\* and creates the row with occurrences 1 and every later call takes the update
\* path: after the k-th call occurrences = k and one message has been posted
\* for the digest.
C4_SequentialUpdatePath ==
    ~overlapped =>
        \A d \in Digests :
            (\A p \in CallsOf(d) :
                 pc[p] = "err" => erred[p] \in {"get_message", "edit_message"}) =>
                /\ \A p \in CallsOf(d) :
                       (\E q \in CallsOf(d) : q < p) =>
                           /\ posted[p] = 0
                           /\ pc[p] \in {"update", "get_message", "edit_message", "ok", "err"}
                /\ (CallsOf(d) # {} /\ \A p \in CallsOf(d) : ~InFlight(p)) =>
                       /\ errors[d].occurrences = Cardinality(CallsOf(d))
                       /\ Cardinality(PostedOf(d)) = 1
                       /\ errors[d].message_id \in PostedOf(d)

\* MaxCalls calls with one traceback, one after the other, have returned Ok
C4_Witness ==
    /\ ~overlapped
    /\ \E d \in Digests : Cardinality(CallsOf(d)) = MaxCalls /\ AllOk(d)
    /\ Len(messages) = 1

\* C5: after k calls with one traceback, one after the other and none failing,
\* the one message of the digest has shown the footers of the counts 1, 2,
\* .., k in this order (1 at its creation, one edit per later call), and it is
\* the message of the first call, which the row still names.
C5_FootersInOrder ==
    ~overlapped =>
        \A d \in Digests :
            (CallsOf(d) # {} /\ AllOk(d)) =>
                LET first == CHOOSE p \in CallsOf(d) : \A q \in CallsOf(d) : p <= q
                    m == posted[first]
                    k == Cardinality(CallsOf(d)) IN
                /\ m \in DOMAIN messages
                /\ PostedOf(d) = {m}
                /\ errors[d].message_id = m
                /\ messages[m].live
                /\ messages[m].shown = <<"This error has occurred 1 time!">> \o Footers(2, k)
                /\ messages[m].embed.footer = messages[m].shown[k]

\* three calls with one traceback, one after the other: the message has been
\* edited twice
C5_Witness ==
    /\ ~overlapped
    /\ \E d \in Digests :
          /\ Cardinality(CallsOf(d)) >= 3 /\ AllOk(d)
          /\ Len(messages[errors[d].message_id].shown) >= 3

\* a step of call p leaves alone the row of every other traceback and the
\* messages the calls with another traceback posted
C6_Frame ==
    \A p \in Procs :
        pc'[p] # pc[p] =>
            /\ \A t \in Tracebacks \ {traceback'[p]} : errors'[hash(t)] = errors[hash(t)]
            /\ \A q \in Procs :
                   (posted[q] # 0 /\ traceback[q] # traceback'[p]) =>
                       messages'[posted[q]] = messages[posted[q]]

\* two calls with different tracebacks have returned Ok: each traceback has
\* its row, and the rows name two different live messages
C6_TwoRecords ==
    \A p, q \in Procs :
        (pc[p] = "ok" /\ pc[q] = "ok" /\ traceback[p] # traceback[q]) =>
            LET a == errors[hash(traceback[p])]
                b == errors[hash(traceback[q])] IN
            /\ a # NoRow /\ b # NoRow
            /\ a.traceback = traceback[p] /\ b.traceback = traceback[q]
            /\ a.message_id # b.message_id
            /\ messages[a.message_id].live /\ messages[b.message_id].live

\* C6: two reports whose tracebacks differ produce two independent rows and
\* two independent messages: a call with traceback A never changes the row of
\* another traceback B and never edits or deletes a message posted for B.
C6_Independent == [][C6_Frame]_vars /\ []C6_TwoRecords

\* calls with both tracebacks have returned Ok, one of them along the update path
C6_Witness ==
    \E p, q \in Procs :
        /\ pc[p] = "ok" /\ pc[q] = "ok" /\ traceback[p] # traceback[q]
        /\ errors[hash(traceback[p])].occurrences = 2

\* C7: whenever no call is in flight and no store step has failed, the
\* occurrences of every digest (0 without a row) equals the number of calls made
\* with it, whatever the outcome of each execute, get_message, edit_message and
\* delete_message.
C7_OccurrencesCountCalls ==
    (\A p \in Procs : ~InFlight(p) /\ erred[p] \notin {"update", "insert"}) =>
        \A d \in Digests : errors[d].occurrences = Cardinality(CallsOf(d))

\* C20: handle_traceback_button leaves the table and the webhook's messages
\* as they are, and when it returns Ok its response is ephemeral and is, for
\* a message id some row holds, the file traceback.txt with the traceback of
\* that row as it was stored, and for a message id no row holds, the content
\* "No traceback found." with no file.
C20_Step ==
    <<clicked, response, button_result>>' # <<clicked, response, button_result>> =>
       /\ errors' = errors
       /\ messages' = messages
       /\ button_result' = "Ok" =>
             /\ response'.ephemeral
             /\ \A d \in Digests :
                   errors[d] # NoRow /\ errors[d].message_id = clicked' =>
                      /\ response'.files = <<[filename |-> "traceback.txt", data |-> d[2]]>>
                      /\ response'.content = ""
                      /\ errors[d].traceback = d[2]
             /\ (\A d \in Digests : errors[d] = NoRow \/ errors[d].message_id # clicked') =>
                   /\ response'.files = <<>>
                   /\ response'.content = "No traceback found."

C20_FullTextOrNotFound == [][C20_Step]_vars

\* with two rows in the table, the traceback of the second has been sent
C20_Witness ==
    /\ \A d \in Digests : errors[d] # NoRow
    /\ button_result = "Ok"
    /\ response.ephemeral
    /\ response.files = <<[filename |-> "traceback.txt", data |-> "panic B"]>>
    /\ errors[<<"sha256", "panic B">>].message_id = clicked

\* C23: a row, once in the table, stays: no step of a report or of
\* handle_traceback_button removes it or changes its traceback or message_id
\* or lowers its occurrences; occurrences changes only by 1, and does so in
\* every step in which a call with that traceback has its UPDATE or its INSERT
\* carried out, and in no other.
C23_Step ==
    \A d \in Digests :
       errors[d] # NoRow =>
          LET stored == {p \in Procs :
                           /\ hash(traceback[p]) = d
                           /\ \/ pc[p] = "update" /\ pc'[p] = "get_message"
                              \/ pc[p] = "insert" /\ pc'[p] \in {"ok", "delete_message"}} IN
          /\ errors'[d] # NoRow
          /\ errors'[d].traceback = errors[d].traceback
          /\ errors'[d].message_id = errors[d].message_id
          /\ errors'[d].occurrences = errors[d].occurrences + Cardinality(stored)
          /\ Cardinality(stored) <= 1

C23_RowsStay == [][C23_Step]_vars

\* a row counted twice, by an UPDATE and by a conflicting INSERT or another
\* UPDATE, while its traceback has been asked for
C23_Witness ==
    \E d \in Digests :
       /\ errors[d] # NoRow
       /\ errors[d].occurrences >= 2
       /\ button_result = "Ok"
       /\ clicked = errors[d].message_id

\* C26: a message is deleted only by the call that posted it, after its
\* INSERT has returned another message id than that of its post; and the
\* message a row names is never deleted.
C26_Step ==
    \A m \in DOMAIN messages :
        messages[m].live /\ ~messages'[m].live =>
            \E p \in Procs :
                /\ pc[p] = "delete_message" /\ pc'[p] = "ok"
                /\ posted[p] = m
                /\ returned[p] # m

C26_Stored ==
    \A d \in Digests :
        errors[d] # NoRow =>
            /\ errors[d].message_id \in DOMAIN messages
            /\ messages[errors[d].message_id].live

C26_DeletesOwnLoser == [][C26_Step]_vars /\ []C26_Stored

\* a call that lost the INSERT has deleted its message
C26_Witness ==
    \E p \in Procs :
        /\ pc[p] = "ok"
        /\ posted[p] # 0 /\ returned[p] # posted[p]
        /\ ~messages[posted[p]].live
        /\ messages[returned[p]].live

\* C27: once the calls made with one traceback, in any interleaving, have all
\* returned Ok(()), the footer of the live message of its digest states the
\* occurrences of its row.
C27_FooterStatesOccurrences ==
    \A d \in Digests :
        (CallsOf(d) # {} /\ AllOk(d)) =>
            \A m \in LiveOf(d) :
                \/ messages[m].embed.footer =
                      "This error has occurred " \o ToString(errors[d].occurrences) \o " times!"
                \/ /\ errors[d].occurrences = 1
                   /\ messages[m].embed.footer = "This error has occurred 1 time!"

\* C28 as the specification words it: handle_traceback_button for a live
\* message always answers with the traceback the message was posted for, and
\* never with "No traceback found.".
C28_LiveNeverNotFound ==
    (button_result = "Ok" /\ clicked \in DOMAIN messages /\ messages[clicked].live) =>
        /\ response.content # "No traceback found."
        /\ \E p \in Procs :
              /\ posted[p] = clicked
              /\ response.files = <<[filename |-> "traceback.txt", data |-> traceback[p]]>>

\* C28: handle_traceback_button for a live message answers with the traceback
\* the message was posted for when a row names the message; when no row does
\* it answers "No traceback found.", and the message is then one whose call
\* has posted it and has not finished its INSERT and the deletion after a
\* lost INSERT (it is still there, or has returned an error there).
C28_Step ==
    (/\ <<clicked, response, button_result>>' # <<clicked, response, button_result>>
     /\ button_result' = "Ok"
     /\ clicked' \in DOMAIN messages /\ messages[clicked'].live) =>
        IF \E d \in Digests : errors[d] # NoRow /\ errors[d].message_id = clicked'
        THEN /\ response'.content = ""
             /\ \E p \in Procs :
                   /\ posted[p] = clicked'
                   /\ response'.files =
                         <<[filename |-> "traceback.txt", data |-> traceback[p]]>>
        ELSE /\ response'.content = "No traceback found."
             /\ response'.files = <<>>
             /\ \E p \in Procs : posted[p] = clicked' /\ Unsettled(p)

C28_TextWhenRowNames == [][C28_Step]_vars

\* the button of a message posted and not yet inserted was answered with
\* "No traceback found."
C28_Witness ==
    /\ button_result = "Ok"
    /\ clicked \in DOMAIN messages /\ messages[clicked].live
    /\ response.content = "No traceback found."
    /\ \E p \in Procs : posted[p] = clicked /\ pc[p] = "insert"

\* C29 as the specification words it: a call that has returned an error has
\* left the table as it was, so that the occurrences of a digest never exceeds
\* the number of calls made with it that have not returned an error.
C29_ErrLeavesStore ==
    \A d \in Digests :
        errors[d].occurrences <= Cardinality({p \in CallsOf(d) : pc[p] # "err"})

\* a call whose UPDATE found the row, or whose INSERT was carried out
C29_Counted(p) ==
    \/ pc[p] \in {"get_message", "edit_message", "delete_message", "ok"}
    \/ pc[p] = "err" /\ erred[p] \in {"get_message", "edit_message", "delete_message"}

\* C29: a call that returns an error leaves the table as it was when the
\* error is that of the UPDATE, of the post or of the INSERT; when get_message,
\* edit_message or delete_message fails, the increment the call has made stays:
\* the occurrences of a digest is the number of the calls made with it whose
\* UPDATE found the row or whose INSERT was carried out, whatever they returned.
C29_IncrementStays ==
    \A d \in Digests :
        errors[d].occurrences = Cardinality({p \in CallsOf(d) : C29_Counted(p)})

\* get_message, edit_message or delete_message has failed after the call had
\* raised the occurrences of the row
C29_Witness ==
    \E p \in Procs :
        /\ pc[p] = "err"
        /\ erred[p] \in {"get_message", "edit_message", "delete_message"}
        /\ errors[hash(traceback[p])].occurrences >= 2

-----------------------------------------------------------------------------
(* Properties of the logger *)

\* the formatted lines of the messages of one level, in the order the events
\* were recorded: one per line of each trimmed message
RECURSIVE FormattedLines(_)
FormattedLines(msgs) ==
    IF msgs = <<>> THEN <<>>
    ELSE LET target == Head(msgs)[1]
             lines == split(trim(Head(msgs)[2])) IN
         [i \in 1..Len(lines) |->
             <<Grave, "[">> \o target \o <<"]", Grave, ":", " ">> \o lines[i] \o <<"\n">>]
         \o FormattedLines(Tail(msgs))

\* the lines of the chunks cs, chunk after chunk
RECURSIVE LinesOf(_)
LinesOf(cs) == IF cs = <<>> THEN <<>> ELSE split_inclusive(Head(cs)) \o LinesOf(Tail(cs))

\* what the webhook of the current level has received
Received == IF webhook = "normal_logs" THEN normal_logs ELSE error_logs

\* C8: the chunks built for one level, one after the other, are the formatted
\* lines of that level's events in the order the events were recorded, each
\* line once; and the chunks delivered so far are the first of them, in order.
C8_ChunksReproduceLines ==
    lpc = "execute" =>
        /\ LinesOf(chunks) = FormattedLines(severity_messages)
        /\ concat(chunks) = concat(FormattedLines(severity_messages))
        /\ Len(Received) >= sent
        /\ \A i \in 1..sent : Received[Len(Received) - sent + i].content = chunks[i]

\* all chunks of a level with two events and at least three chunks are delivered
C8_Witness ==
    /\ lpc = "execute"
    /\ Len(severity_messages) >= 2
    /\ Len(chunks) >= 3
    /\ sent = Len(chunks)

\* C9: every chunk built or delivered (each request is the last of its
\* webhook's when it is delivered) is at most 2000 bytes long or is one line
\* that alone exceeds 2000 bytes; every chunk consists of whole formatted
\* lines, none truncated or split across two chunks.
C9_ChunkSize ==
    /\ \A log \in {normal_logs, error_logs} :
           log # <<>> =>
               LET c == log[Len(log)].content IN
               len(c) <= ChunkLimit \/ (Len(split_inclusive(c)) = 1 /\ c[Len(c)] = "\n")
    /\ lpc = "execute" =>
           LET formatted == FormattedLines(severity_messages) IN
           \A i \in 1..Len(chunks) :
               LET lines == split_inclusive(chunks[i]) IN
               /\ lines # <<>>
               /\ \A j \in 1..Len(lines) :
                      \E k \in 1..Len(formatted) : lines[j] = formatted[k]
               /\ len(chunks[i]) <= ChunkLimit \/ Len(lines) = 1

\* a line longer than the limit has been delivered as a chunk, after a chunk
\* of several lines
C9_Witness ==
    /\ lpc = "execute"
    /\ sent >= 3
    /\ \E i \in 2..sent :
          /\ len(chunks[i]) > ChunkLimit
          /\ Len(split_inclusive(chunks[i - 1])) >= 2

\* "[source]: text" and a line feed, one line per event
RECURSIVE PlainLines(_)
PlainLines(msgs) ==
    IF msgs = <<>> THEN <<>>
    ELSE <<"[">> \o Head(msgs)[1] \o <<"]", ":", " ">> \o Head(msgs)[2] \o <<"\n">>
         \o PlainLines(Tail(msgs))

\* C10 as stated: each event is formatted as the one line "[source]: text"
\* and a line feed.
C10_PlainLines ==
    lpc = "execute" => concat(chunks) = PlainLines(severity_messages)

\* the Info events (a, hello) and (b, world), and the chunk they give
HelloWorld ==
    << << <<"a">>, <<"h", "e", "l", "l", "o">> >>,
       << <<"b">>, <<"w", "o", "r", "l", "d">> >> >>
HelloWorldChunk ==
    <<Grave, "[", "a", "]", Grave, ":", " ", "h", "e", "l", "l", "o", "\n",
      Grave, "[", "b", "]", Grave, ":", " ", "w", "o", "r", "l", "d", "\n">>

\* C10 amended: each line of each event's trimmed text is formatted as the
\* one line "`[source]`: line" and a line feed; the Info events (a, hello)
\* and (b, world) of one tick give the one chunk
\* "`[a]`: hello\n`[b]`: world\n", delivered to the normal webhook.
C10_GraveLines ==
    lpc = "execute" =>
        /\ concat(chunks) = concat(FormattedLines(severity_messages))
        /\ (severity = "INFO" /\ severity_messages = HelloWorld) =>
               /\ chunks = <<HelloWorldChunk>>
               /\ webhook = "normal_logs"
               /\ sent = 1 => normal_logs[Len(normal_logs)].content = HelloWorldChunk

\* the chunk of (a, hello) and (b, world) has been delivered to the normal
\* webhook
C10_Witness ==
    /\ lpc = "execute"
    /\ severity = "INFO" /\ severity_messages = HelloWorld
    /\ sent = 1
    /\ normal_logs = <<[content |-> HelloWorldChunk, username |-> WebhookName("INFO"),
                        avatar_url |-> LevelLookup("INFO")]>>
    /\ error_logs = <<>>

\* C11: however record and flush interleave, every recorded event is taken by
\* exactly one drain: the events recorded are those the drains have taken and
\* those still buffered; the buffer changes only by one event appended to one
\* level, which leaves the drained map alone, or by a drain that takes the
\* whole map and leaves it empty; and the drained map gains events from no
\* other step.
C11_Count == recorded = flushed + Buffered(pending_logs)

C11_Step ==
    /\ pending_logs' # pending_logs =>
          \/ /\ \E level \in Levels, message \in LogMessages :
                   pending_logs' = [pending_logs EXCEPT ![level] = Append(@, message)]
             /\ drained' = drained
             /\ flushed' = flushed
          \/ /\ pending_logs' = NoLogs
             /\ drained' = pending_logs
             /\ flushed' = flushed + Buffered(pending_logs)
    /\ drained' # drained =>
          \/ drained' = pending_logs /\ pending_logs' = NoLogs
          \/ \A level \in Levels : drained'[level] \in {drained[level], <<>>}
    /\ flushed' # flushed => drained' = pending_logs /\ pending_logs' = NoLogs

C11_DrainedOnce == []C11_Count /\ [][C11_Step]_vars

\* a second drain has taken the one event recorded after the first, some of
\* which has been delivered
C11_Witness ==
    /\ lpc = "for"
    /\ flushed = 2
    /\ Buffered(drained) = 1
    /\ Len(normal_logs) + Len(error_logs) >= 1

\* C12: the lock of pending_logs is not held while loop_func is past its
\* first statement, so not while a delivery is in progress: a producer that
\* records an event then (one more event being within the bound) takes the
\* lock and appends without waiting for the delivery.
C12_NoLockInDelivery ==
    lpc # "idle" =>
       /\ ~locked
       /\ recorded < MaxEvents =>
             ENABLED (\E level \in Levels, message \in LogMessages : Event(level, message))

\* a chunk awaits delivery, and an event recorded since the drain is buffered
C12_Witness ==
    /\ lpc = "execute"
    /\ sent < Len(chunks)
    /\ ~locked
    /\ flushed = 1
    /\ Buffered(pending_logs) = 1

\* C13: a chunk goes to the error webhook exactly when its level is ERROR and
\* to the normal webhook when it is TRACE, DEBUG, INFO or WARN (the username
\* of a request carries the level of its chunk), and a delivery adds one
\* request to one of the two webhooks and nothing to the other.
C13_Routed ==
    /\ \A i \in 1..Len(error_logs) : error_logs[i].username = <<"Logs", " [", "ERROR", "]">>
    /\ \A i \in 1..Len(normal_logs) :
          \E level \in {"TRACE", "DEBUG", "INFO", "WARN"} :
             normal_logs[i].username = <<"Logs", " [", level, "]">>
    /\ lpc = "execute" =>
          /\ webhook_name = <<"Logs", " [", severity, "]">>
          /\ webhook = "error_logs" <=> severity = "ERROR"
          /\ webhook = "normal_logs" <=> severity \in {"TRACE", "DEBUG", "INFO", "WARN"}

C13_OneWebhook ==
    \/ normal_logs' = normal_logs /\ error_logs' = error_logs
    \/ normal_logs' = normal_logs /\ Len(error_logs') = Len(error_logs) + 1
    \/ error_logs' = error_logs /\ Len(normal_logs') = Len(normal_logs) + 1

C13_ErrorToErrorLogs == []C13_Routed /\ [][C13_OneWebhook]_vars

\* each webhook has received a chunk
C13_Witness == error_logs # <<>> /\ normal_logs # <<>>

\* C14: when the delivery of a chunk fails, loop_func stops there: the step
\* after a chunk awaiting delivery is its delivery, or the return of the
\* error with nothing delivered, the drained map dropped and the buffer left
\* as it was; a request delivered is a chunk of the messages this flush
\* drained, and between flushes nothing drained is kept.
C14_Step ==
    lpc = "execute" /\ sent < Len(chunks) /\ <<lpc, sent, loop_result>>' # <<lpc, sent, loop_result>> =>
       \/ /\ sent' = sent + 1
          /\ lpc' = lpc
          /\ loop_result' = loop_result
          /\ normal_logs' \o error_logs' # normal_logs \o error_logs
          /\ \E log \in {normal_logs', error_logs'} :
                log # <<>> /\ log[Len(log)].content = Chunks(severity_messages)[sent']
       \/ /\ loop_result' = "Err"
          /\ lpc' = "idle"
          /\ drained' = NoLogs
          /\ pending_logs' = pending_logs
          /\ normal_logs' = normal_logs
          /\ error_logs' = error_logs

C14_NothingKept == lpc = "idle" => drained = NoLogs

C14_AbortOnError == []C14_NothingKept /\ [][C14_Step]_vars

\* a flush has returned an error with nothing delivered, and the next has
\* drained one event recorded since
C14_Witness ==
    /\ loop_result = "Err"
    /\ lpc = "for"
    /\ flushed = 2
    /\ Buffered(drained) = 1
    /\ normal_logs = <<>>
    /\ error_logs = <<>>

\* C22: Subscriber::event cannot fail and appends one event: an event can be
\* recorded in every state (one more being within the bound), and the step
\* that records it puts one message after the messages of one level and
\* leaves the other levels and the messages before it as they were.
C22_Step ==
    recorded' # recorded =>
       /\ recorded' = recorded + 1
       /\ \E level \in Levels, message \in LogMessages :
             /\ Len(pending_logs'[level]) = Len(pending_logs[level]) + 1
             /\ pending_logs'[level][Len(pending_logs'[level])] = message
             /\ SubSeq(pending_logs'[level], 1, Len(pending_logs[level])) = pending_logs[level]
             /\ \A other \in Levels \ {level} : pending_logs'[other] = pending_logs[other]

C22_CannotFail ==
    recorded < MaxEvents =>
       ENABLED (\E level \in Levels, message \in LogMessages : Event(level, message))

C22_AppendsOne == []C22_CannotFail /\ [][C22_Step]_vars

\* two different events of one level are buffered, in the order recorded
C22_Witness ==
    \E level \in Levels :
       /\ Len(pending_logs[level]) = 2
       /\ pending_logs[level][1] # pending_logs[level][2]

\* C25: the chunks of a severity are filled greedily: of every two chunks
\* that follow each other, the earlier one and the first line of the later one
\* are together longer than 2000 bytes, so that a chunk is begun only for a
\* line that did not fit, and a line that brings a chunk to 2000 bytes exactly
\* was appended to it.
C25_Greedy ==
    \A i \in 1..(Len(chunks) - 1) :
        len(chunks[i]) + len(split_inclusive(chunks[i + 1])[1]) > 2000

\* two lines were put into one chunk of 2000 bytes exactly, and the line after
\* them began the next chunk
C25_Witness ==
    /\ Len(chunks) >= 2
    /\ len(chunks[1]) = 2000
    /\ Len(split_inclusive(chunks[1])) = 2

-----------------------------------------------------------------------------
(* Properties of the looper *)

\* C15: the invocations of loop_func one start makes never overlap: at most
\* one is in progress in every state, and one is in progress exactly while
\* start is suspended in it, however far past the deadlines of the interval
\* it runs.
C15_NoOverlap ==
    /\ running <= 1
    /\ running = 1 <=> spc = "loop_func"

\* an invocation still in progress when the next tick is overdue
C15_Witness == running = 1 /\ spc = "loop_func" /\ deadline_in < 0

\* C16: an invocation that returns an error does not stop start: the step by
\* which it returns has the error printed on stderr and start back in
\* interval.tick(), start never returns, and, the runtime being fair and
\* every invocation returning, loop_func is called again and again, whatever
\* the invocations return.
C16_Step ==
    running' < running /\ last' = "Err" =>
       /\ stderr' = <<"Looper", " Error: ", "err">>
       /\ spc' = "tick"

C16_ErrorsDoNotStop ==
    /\ [][C16_Step]_vars
    /\ [](spc \in {"tick", "loop_func"})
    /\ []<><<spc = "tick" /\ spc' = "loop_func">>_vars

\* loop_func has been called again after an invocation that returned an error
C16_Witness ==
    /\ last = "Err"
    /\ stderr = <<"Looper", " Error: ", "err">>
    /\ spc = "loop_func"
    /\ calls = 2

\* C17 as stated: when an invocation starts, at least one period has passed
\* since the invocation before it returned.
C17_PeriodAfterReturn == waited >= MILLIS

\* C17: the period of the interval runs from tick to tick, not from the
\* return of loop_func: when an invocation starts, at least one period has
\* passed since the invocation before it started, if that one started at the
\* deadline of its tick.
C17_PeriodFromCallToCall == gap_on_time => gap >= MILLIS

\* an invocation started one period after the one before it started, and
\* less than one period after it returned
C17_Witness ==
    /\ spc = "loop_func"
    /\ since_call = 0
    /\ gap_on_time
    /\ gap = MILLIS
    /\ waited < MILLIS

\* C18 as stated: no invocation is in progress less than one period after
\* start was called.
C18_PeriodBeforeFirst == spc = "loop_func" => since_start >= MILLIS

\* C18: start does not wait before the first invocation: until loop_func has
\* been called, the tick is ready and the call can be made, from the moment
\* start is called; it is the second invocation that does not start less than
\* one period after start was called.
C18_FirstTickAtOnce ==
    /\ calls = 0 => ENABLED Tick
    /\ since_start < MILLIS => calls <= 1

\* the first invocation in progress, no time having passed since start was
\* called
C18_Witness == calls = 1 /\ spc = "loop_func" /\ since_start = 0

-----------------------------------------------------------------------------
(* Properties of short_error *)

\* C19: short_error is the longest prefix of the error message that has at
\* most 256 bytes and ends where a character ends: it is a prefix, of at most
\* 256 bytes, the byte after it does not continue a character, and every
\* longer prefix of at most 256 bytes stops inside a character; it is the
\* whole message when that has at most 256 bytes; and the block never panics.
C19_LongestPrefix ==
    /\ tpc # "panic"
    /\ tpc = "done" =>
          LET n == Len(short_error) IN
          /\ n <= 256
          /\ n <= Len(long_err)
          /\ short_error = SubSeq(long_err, 1, n)
          /\ n < Len(long_err) => long_err[n + 1] # "c"
          /\ Len(long_err) <= 256 => short_error = long_err
          /\ \A m \in (n + 1)..256 :
                m <= Len(long_err) => m < Len(long_err) /\ long_err[m + 1] = "c"

\* a message of more than 256 bytes whose byte 257 continues a character,
\* cut before that character
C19_Witness ==
    /\ tpc = "done"
    /\ Len(long_err) > 256
    /\ long_err[257] = "c"
    /\ Len(short_error) < 256

-----------------------------------------------------------------------------
(* Properties of interaction_create *)

\* C21 as stated: where every report is the report of a failed
\* handle_traceback_button and every event the record of a failed report, no
\* message is posted by the error webhook and no event is buffered.
C21_OnlyDiagnostic == messages = <<>> /\ pending_logs = NoLogs

\* C21: a failed handle_traceback_button is reported by handle_unexpected,
\* and a failed report is recorded once as an ERROR event of the target
\* gnomeutils::errors, which the logger, once it is the subscriber, buffers
\* whatever its max_verbosity; the record posts no message, changes no row and
\* starts no report, and nothing follows it.
C21_Events ==
    /\ \A level \in Levels \ {"ERROR"} : pending_logs[level] = <<>>
    /\ \A i \in 1..Len(pending_logs["ERROR"]) :
          pending_logs["ERROR"][i] =
             << <<"g", "n", "o", "m", "e", "u", "t", "i", "l", "s", ":", ":",
                  "e", "r", "r", "o", "r", "s">>,
                <<"o", "n", "_", "e", "r", "r", "o", "r", ":", " ", "e", "r", "r">> >>
    /\ recorded <= Cardinality({p \in Procs : pc[p] = "on_error"})
    /\ Len(messages) <= Cardinality({p \in Procs : pc[p] # "idle"})

C21_Step ==
    \A p \in Procs :
       /\ pc[p] = "idle" /\ pc'[p] # "idle" =>
             button_result' = "Err" /\ response' = NoResponse
       /\ pc[p] = "err" /\ pc'[p] # "err" =>
             /\ pc'[p] = "on_error"
             /\ messages' = messages
             /\ errors' = errors
             /\ \A q \in Procs \ {p} : pc'[q] = pc[q]
             /\ max_verbosity # "none" => recorded' = recorded + 1
       /\ pc[p] = "on_error" => pc'[p] = "on_error"

C21_LoggedNotReported == []C21_Events /\ [][C21_Step]_vars

\* a failed handle_traceback_button has been reported with a message, the
\* report has failed, and its failure is in the buffer
C21_Witness ==
    /\ \E p \in Procs : pc[p] = "on_error" /\ posted[p] # 0
    /\ messages # <<>>
    /\ pending_logs["ERROR"] # <<>>

-----------------------------------------------------------------------------
(* Properties of the bot list updater *)

\* C24: a tick of loop_func always returns Ok, and when it has, no request
\* was sent to a bot list without a token, one request was sent to each bot
\* list with one, and an error was logged for each request that failed.
C24_AllAttempted ==
    /\ bpc # "panic"
    /\ bpc = "idle" /\ bot_result = "Ok" =>
          /\ \A list \in BotLists :
                Cardinality({i \in 1..Len(requests) : requests[i].list = list})
                   = IF tokens[list] = "None" THEN 0 ELSE 1
          /\ \A i \in 1..Len(requests) :
                requests[i].outcome # "success" <=>
                   \E j \in 1..Len(bot_errors) : bot_errors[j] = requests[i].list

-----------------------------------------------------------------------------
(* Properties of Subscriber::enabled *)

\* the levels that are at least as severe as the level max
C30_AtLeastAsSevere(max) ==
    CASE max = "ERROR" -> {"ERROR"}
      [] max = "WARN"  -> {"ERROR", "WARN"}
      [] max = "INFO"  -> {"ERROR", "WARN", "INFO"}
      [] max = "DEBUG" -> {"ERROR", "WARN", "INFO", "DEBUG"}
      [] max = "TRACE" -> {"ERROR", "WARN", "INFO", "DEBUG", "TRACE"}

\* the target begins with "gnomeutils" or with the log prefix
C30_Own(target) ==
    \/ Len(target) >= 10 /\ SubSeq(target, 1, 10) = Gnomeutils
    \/ Len(target) >= Len(log_prefix) /\ SubSeq(target, 1, Len(log_prefix)) = log_prefix

\* C30: an event made is appended to the buffer, at the end of the list of
\* its level, exactly when its target begins with "gnomeutils" or the log
\* prefix and its level is at least as severe as max_verbosity, or its target
\* does not and its level is WARN or ERROR; otherwise the buffer stays as it is.
C30_Step ==
    (emitted' # emitted \/ pending_logs' # pending_logs) =>
        LET target == emitted'.target
            level == emitted'.level
            admitted == IF C30_Own(target)
                        THEN level \in C30_AtLeastAsSevere(max_verbosity)
                        ELSE level \in {"WARN", "ERROR"} IN
        IF admitted
        THEN /\ Len(pending_logs'[level]) = Len(pending_logs[level]) + 1
             /\ pending_logs'[level][Len(pending_logs'[level])][1] = target
             /\ \A other \in Levels \ {level} : pending_logs'[other] = pending_logs[other]
        ELSE pending_logs' = pending_logs

C30_OnlyAdmitted == [][C30_Step]_vars

\* with max_verbosity INFO, an INFO event of the prefix's crate is buffered,
\* and the last event made, a DEBUG event of the library, was not
C30_Witness ==
    /\ max_verbosity = "INFO"
    /\ Len(pending_logs["INFO"]) = 1
    /\ pending_logs["INFO"][1][1] = <<"b", "o", "t", ":", ":", "m">>
    /\ emitted = [target |-> Gnomeutils \o <<":", ":", "e">>, level |-> "DEBUG"]
    /\ pending_logs["DEBUG"] = <<>>

=============================================================================
